---- MODULE Spec2Model ----
(***************************************************************************)
(* Model of the RAG middleware of the llama server                         *)
(* (tools/server/rag_middleware.hpp, rag_middleware.cpp).                  *)
(*                                                                         *)
(* Spec      the RAGMiddleware object used by several threads:             *)
(*           augment_query, is_healthy, update_config, with the            *)
(*           configuration, the HTTP client and config_mutex_ as state.    *)
(* PureSpec  the free/static functions applied to bounded inputs:          *)
(*           inject_context_into_messages, should_use_rag.                 *)
(* ConstructSpec   the constructor applied to a range of configurations.   *)
(* TranslatorSpec  parse_response and format_rag_context applied to        *)
(*           bounded payloads and chunk lists.                             *)
(*                                                                         *)
(* Strings that the code concatenates are sequences of tokens, so that     *)
(* concatenation is \o and "begins with" is a test on the head.            *)
(* similarity_threshold is kept in tenths (3 stands for 0.3f).             *)
(***************************************************************************)
EXTENDS Integers, Sequences, FiniteSets, TLC

(***************************************************************************)
(* Bounds of the model.                                                    *)
(***************************************************************************)
NumThreads == 2
MaxCalls == 2
MaxClock == 1
MaxTurns == 3
MaxChunks == 3

Threads == 1..NumThreads

(***************************************************************************)
(* Program constants.                                                      *)
(***************************************************************************)
DefaultPort == 8001
DefaultMaxResults == 5
DefaultThreshold == 3
DefaultTimeoutMs == 5000
HttpsPort == 443
HttpPort == 80
StatusOK == 200

(***************************************************************************)
(* RAGConfig, with the defaults of the struct.                             *)
(***************************************************************************)
RAGConfig ==
    [aurapai_host |-> <<"localhost">>,
     aurapai_port |-> DefaultPort,
     max_results |-> DefaultMaxResults,
     similarity_threshold |-> DefaultThreshold,
     include_tools |-> FALSE,
     timeout_ms |-> DefaultTimeoutMs,
     enabled |-> FALSE]

\* The members of RAGConfig in declaration order: the order in which the
\* implicit copy assignment `config_ = config` copies them.
ConfigMembers ==
    <<"aurapai_host", "aurapai_port", "max_results", "similarity_threshold",
      "include_tools", "timeout_ms", "enabled">>

\* Configurations the callers construct and pass in.
CfgOn == [RAGConfig EXCEPT !.enabled = TRUE]
CfgSoft ==
    [CfgOn EXCEPT !.max_results = 6, !.similarity_threshold = 5,
                  !.include_tools = TRUE, !.timeout_ms = 1500]
CfgUrl == [CfgOn EXCEPT !.aurapai_host = <<"https://", "svc.example", "/">>]
CfgPort == [CfgOn EXCEPT !.aurapai_port = 9000]
Configs == {RAGConfig, CfgOn, CfgSoft, CfgUrl, CfgPort}

(***************************************************************************)
(* The HTTP client built by init_http_client (everything after the lock).  *)
(***************************************************************************)
NoClient == [null |-> TRUE, host |-> <<>>, port |-> 0, tls |-> FALSE,
             read_sec |-> 0, read_usec |-> 0, write_sec |-> 0, write_usec |-> 0]

StartsWith(s, tok) == Len(s) > 0 /\ s[1] = tok

StripTrailingSlash(h) ==
    IF Len(h) > 0 /\ h[Len(h)] = "/" THEN SubSeq(h, 1, Len(h) - 1) ELSE h

\* (mutation of NewClient: the configured port used whatever the scheme)
NewClientConfiguredPort(cfg, ssl) ==
    LET raw == cfg.aurapai_host
        use_https == StartsWith(raw, "https://")
        has_scheme == use_https \/ StartsWith(raw, "http://")
        host == StripTrailingSlash(IF has_scheme THEN Tail(raw) ELSE raw)
    IN [null |-> FALSE, host |-> host, port |-> cfg.aurapai_port,
        tls |-> (use_https /\ ssl),
        read_sec |-> cfg.timeout_ms \div 1000,
        read_usec |-> (cfg.timeout_ms % 1000) * 1000,
        write_sec |-> cfg.timeout_ms \div 1000,
        write_usec |-> (cfg.timeout_ms % 1000) * 1000]

NewClient(cfg, ssl) ==
    LET raw == cfg.aurapai_host
        use_https == StartsWith(raw, "https://")
        has_scheme == use_https \/ StartsWith(raw, "http://")
        port == IF use_https THEN HttpsPort
                ELSE IF has_scheme THEN HttpPort
                ELSE cfg.aurapai_port
        host == StripTrailingSlash(IF has_scheme THEN Tail(raw) ELSE raw)
    IN [null |-> FALSE, host |-> host, port |-> port,
        tls |-> (use_https /\ ssl),
        read_sec |-> cfg.timeout_ms \div 1000,
        read_usec |-> (cfg.timeout_ms % 1000) * 1000,
        write_sec |-> cfg.timeout_ms \div 1000,
        write_usec |-> (cfg.timeout_ms % 1000) * 1000]

(***************************************************************************)
(* JSON values as far as the code inspects them.  A member of an object is *)
(* [ty, s, n]: ty is "absent" or the JSON type, s the text of a string,    *)
(* n the value of a number.                                                *)
(***************************************************************************)
Absent == [ty |-> "absent", s |-> <<>>, n |-> 0]
JStr(text) == [ty |-> "string", s |-> text, n |-> 0]
JNum(k) == [ty |-> "number", s |-> <<>>, n |-> k]

\* json::value(key, "default"): the default when the key is absent, the
\* string when it is one, type_error otherwise.
StrOK(f) == f.ty \in {"absent", "string"}
StrValue(f, default) == IF f.ty = "string" THEN f.s ELSE default
\* json::value(key, 0.0f)
NumOK(f) == f.ty \in {"absent", "number"}
NumValue(f, default) == IF f.ty = "number" THEN f.n ELSE default

JChunk(c, s, sim) == [obj |-> TRUE, content |-> c, source |-> s, similarity |-> sim]
JNotAnObject == [obj |-> FALSE, content |-> Absent, source |-> Absent, similarity |-> Absent]
JTool(name) == [str |-> TRUE, s |-> name]
JNotAString == [str |-> FALSE, s |-> "0"]

JObject(ctx, lat, hasChunks, chunks, hasTools, tools) ==
    [obj |-> TRUE, augmented_context |-> ctx, latency_ms |-> lat,
     has_chunks |-> hasChunks, chunks |-> chunks,
     has_tools |-> hasTools, tools |-> tools]
JEmptyObject == JObject(Absent, Absent, FALSE, <<>>, FALSE, <<>>)
JArray == [JEmptyObject EXCEPT !.obj = FALSE]

\* Bodies the retrieval service may answer with.
GoodChunk == JChunk(JStr(<<"c1">>), JStr(<<"doc">>), JNum(9))
BareChunk == JChunk(Absent, Absent, Absent)
PayloadFull ==
    JObject(JStr(<<"ctx">>), JNum(7), TRUE, <<GoodChunk, BareChunk>>,
            TRUE, <<JTool("search"), JNotAString>>)
PayloadBadContext == [PayloadFull EXCEPT !.augmented_context = JNum(1)]
PayloadBadChunk == [PayloadFull EXCEPT !.chunks = <<GoodChunk, JNotAnObject>>]
PayloadBadSimilarity ==
    [PayloadFull EXCEPT !.chunks = <<JChunk(JStr(<<"c1">>), Absent, JStr(<<"x">>))>>]
Payloads ==
    {PayloadFull, JEmptyObject, JArray, PayloadBadContext, PayloadBadChunk,
     PayloadBadSimilarity}
\* Those of them the service answers with in Spec: one that parse_response
\* extracts, one it fails on at once, one it fails on after a chunk.
ServiceBodies == {PayloadFull, JArray, PayloadBadChunk}

(***************************************************************************)
(* RAGResponse.  latency_ms and success have no initializer: a default-    *)
(* initialized RAGResponse holds an indeterminate latency_ms (junk): zero, *)
(* a value some call could have measured, or one no call could.            *)
(***************************************************************************)
Indeterminate == {0, MaxClock, MaxClock + 1}

RAGResponse(junk) ==
    [augmented_context |-> <<>>, chunks |-> <<>>, suggested_tools |-> <<>>,
     latency_ms |-> junk, success |-> FALSE, error_message |-> <<>>]

ChunkOK(c) ==
    c.obj /\ StrOK(c.content) /\ StrOK(c.source) /\ NumOK(c.similarity)

ContextChunk(c) ==
    [content |-> StrValue(c.content, <<>>),
     source |-> StrValue(c.source, <<"unknown">>),
     similarity |-> NumValue(c.similarity, 0)]

\* what() of the nlohmann exception the extraction raises, <<>> if none
ChunkFault(c) == IF ~c.obj THEN <<"type_error.306">> ELSE <<"type_error.302">>

RECURSIVE FirstBadChunk(_, _)
FirstBadChunk(cs, i) ==
    IF i > Len(cs) THEN 0
    ELSE IF ~ChunkOK(cs[i]) THEN i
    ELSE FirstBadChunk(cs, i + 1)

RECURSIVE StringTools(_)
StringTools(ts) ==
    IF ts = <<>> THEN <<>>
    ELSE IF Head(ts).str THEN <<Head(ts).s>> \o StringTools(Tail(ts))
    ELSE StringTools(Tail(ts))

ParseFailure(r, what) ==
    [r EXCEPT !.success = FALSE, !.error_message = <<"Parse error: ">> \o what]

parse_response(j, junk) ==
    LET r0 == [RAGResponse(junk) EXCEPT !.success = TRUE]
    IN  IF ~j.obj THEN ParseFailure(r0, <<"type_error.306">>)
        ELSE IF ~StrOK(j.augmented_context) THEN ParseFailure(r0, <<"type_error.302">>)
        ELSE
        LET r1 == [r0 EXCEPT !.augmented_context = StrValue(j.augmented_context, <<>>)]
        IN  IF ~NumOK(j.latency_ms) THEN ParseFailure(r1, <<"type_error.302">>)
            ELSE
            LET r2 == [r1 EXCEPT !.latency_ms = NumValue(j.latency_ms, 0)]
                cs == IF j.has_chunks THEN j.chunks ELSE <<>>
                bad == FirstBadChunk(cs, 1)
                upto == IF bad = 0 THEN Len(cs) ELSE bad - 1
                r3 == [r2 EXCEPT !.chunks = [i \in 1..upto |-> ContextChunk(cs[i])]]
            IN  IF bad # 0 THEN ParseFailure(r3, ChunkFault(cs[bad]))
                ELSE [r3 EXCEPT !.suggested_tools =
                         IF j.has_tools THEN StringTools(j.tools) ELSE <<>>]

(***************************************************************************)
(* What the retrieval service, or the transport, hands back for a request. *)
(* got = FALSE: no response at all (res is false).  parses: whether        *)
(* json::parse accepts the body.                                           *)
(***************************************************************************)
HttpResult(got, status, parses, json) ==
    [got |-> got, status |-> status, parses |-> parses, json |-> json]

\* No response: what `res` holds when the request got none.
NoResult == HttpResult(FALSE, 0, FALSE, JEmptyObject)

PostResults ==
    {NoResult,
     HttpResult(TRUE, 500, TRUE, JEmptyObject),
     HttpResult(TRUE, 201, TRUE, PayloadFull),
     HttpResult(TRUE, StatusOK, FALSE, JEmptyObject)}
    \cup {HttpResult(TRUE, StatusOK, TRUE, j) : j \in ServiceBodies}

\* The health body: ready is "absent", "true", "false" or "other" (present
\* and not a boolean).
HealthBody(obj, ready) == [obj |-> obj, ready |-> ready]
GetResults ==
    {HttpResult(FALSE, 0, FALSE, HealthBody(TRUE, "absent")),
     HttpResult(TRUE, 503, TRUE, HealthBody(TRUE, "true")),
     HttpResult(TRUE, 204, TRUE, HealthBody(TRUE, "true")),
     HttpResult(TRUE, StatusOK, FALSE, HealthBody(TRUE, "absent")),
     HttpResult(TRUE, StatusOK, TRUE, HealthBody(FALSE, "absent"))}
    \cup {HttpResult(TRUE, StatusOK, TRUE, HealthBody(TRUE, r)) :
            r \in {"absent", "true", "false", "other"}}

\* Arguments of augment_query: <<query, session_id>>.
QueryArgs == {<<<<>>, <<>>>>, <<<<"q">>, <<>>>>, <<<<"q">>, <<"s1">>>>}

NoBody ==
    [query |-> <<>>, max_results |-> 0, similarity_threshold |-> 0,
     include_tools |-> FALSE, has_session_id |-> FALSE, session_id |-> <<>>]

\* std::optional<json>
Nullopt == [has_value |-> FALSE, value |-> JEmptyObject]
Some(j) == [has_value |-> TRUE, value |-> j]

(***************************************************************************)
(* State.                                                                  *)
(***************************************************************************)
VARIABLES
    config_,        \* RAGMiddleware::config_
    http_client_,   \* RAGMiddleware::http_client_ (NoClient: null)
    config_mutex_,  \* the set of threads owning config_mutex_ (at most one)
    ssl,            \* whether the build has CPPHTTPLIB_OPENSSL_SUPPORT
    pc,             \* where each thread is
    frame,          \* each thread's arguments and locals
    calls,          \* calls started so far
    messages, rag_context, today, params,   \* arguments of the pure functions
    payload, chunks,                        \* (parse_response, format_rag_context)
    returned                                \* what a pure function handed back

vars == <<config_, http_client_, config_mutex_, ssl, pc, frame, calls,
          messages, rag_context, today, params, payload, chunks, returned>>
pureArgs == <<messages, rag_context, today, params, payload, chunks>>
pureVars == <<pureArgs, returned>>
objVars == <<config_, http_client_, config_mutex_, ssl, pc, frame, calls>>

\* A thread's frame outside any call.  During a call the frame holds an
\* argument or local for as long as the code still reads it.
NoFrame ==
    [query |-> <<>>, session_id |-> <<>>,
     response |-> RAGResponse(0), request_body |-> NoBody,
     json_response |-> Nullopt, start_time |-> 0,
     config |-> RAGConfig, need_reinit |-> FALSE, member |-> 0,
     healthy |-> FALSE,
     res |-> NoResult,        \* httplib::Result of the call's Post or Get
     \* bookkeeping of the call, not program state:
     elapsed |-> 0,           \* ms from the entry of augment_query to its end
     posts |-> 0,             \* POSTs this call issued
     gets |-> 0,              \* GETs this call issued
     raced |-> FALSE          \* an update_config overlapped this call
    ]

InAugmentQuery(t) ==
    pc[t] \in {"aq_max_results", "aq_threshold", "aq_include_tools",
               "mr_lock", "mr_post", "aq_finish", "aq_catch", "aq_done"}
InIsHealthy(t) == pc[t] \in {"ih_lock", "ih_get", "ih_done"}
InUpdateConfig(t) ==
    pc[t] \in {"uc_lock", "uc_assign", "uc_decide", "ihc_lock", "ihc_blocked",
               "uc_done", "uc_threw"}

\* What a pure function handed back: a transcript (json), a boolean, a
\* RAGResponse or a text, or an exception (raised).
NothingReturned ==
    [op |-> "none", raised |-> FALSE,
     json |-> [is_array |-> TRUE, turns |-> <<>>], bool |-> FALSE,
     response |-> RAGResponse(0), text |-> <<>>]

(***************************************************************************)
(* Construction: RAGMiddleware(config) stores the configuration and, when  *)
(* it is enabled, builds the client (init_http_client takes and releases   *)
(* the free mutex).                                                        *)
(***************************************************************************)
Constructed(cfg) ==
    /\ config_ = cfg
    /\ http_client_ = IF cfg.enabled THEN NewClient(cfg, ssl) ELSE NoClient
    /\ config_mutex_ = {}

\* Spec runs a build with OpenSSL support.
Init ==
    /\ ssl = TRUE
    /\ \E cfg \in {RAGConfig, CfgOn} : Constructed(cfg)
    /\ pc = [t \in Threads |-> "idle"]
    /\ frame = [t \in Threads |-> NoFrame]
    /\ calls = 0
    /\ messages = [is_array |-> TRUE, turns |-> <<>>]
    /\ rag_context = <<>>
    /\ today = "2025-01-01"
    /\ payload = JEmptyObject
    /\ chunks = <<>>
    /\ params = [obj |-> TRUE, rag_enabled |-> "absent"]
    /\ returned = NothingReturned

\* std::lock_guard<std::mutex> lock(config_mutex_), by a thread not owning it
Lock(t) == config_mutex_ = {} /\ config_mutex_' = {t}
\* ~lock_guard
Unlock(t) == config_mutex_' = config_mutex_ \ {t}

Goto(t, label) == pc' = [pc EXCEPT ![t] = label]

\* Time passes: one more millisecond on high_resolution_clock.  The clock
\* is read by augment_query alone, and only differences of its readings are
\* used, so the model keeps, for each call that has not yet taken end_time,
\* the time since its entry.
Measuring(t) == InAugmentQuery(t) /\ pc[t] # "aq_done"

Tick ==
    /\ \E t \in Threads : Measuring(t)
    /\ \A t \in Threads : Measuring(t) => frame[t].elapsed < MaxClock
    /\ frame' = [t \in Threads |->
                    IF Measuring(t)
                    THEN [frame[t] EXCEPT !.elapsed = @ + 1]
                    ELSE frame[t]]
    /\ UNCHANGED <<config_, http_client_, config_mutex_, ssl, pc, calls, pureVars>>

(***************************************************************************)
(* augment_query                                                           *)
(***************************************************************************)
\* (mutation of Precondition: the two checks in the other order)
PreconditionQueryFirst(enabled, query) ==
    IF query = <<>> THEN <<"Empty query">>
    ELSE IF ~enabled THEN <<"RAG disabled">>
    ELSE <<>>

\* The two early returns: the error message, <<>> to go on.
Precondition(enabled, query) ==
    IF ~enabled THEN <<"RAG disabled">>
    ELSE IF query = <<>> THEN <<"Empty query">>
    ELSE <<>>

\* Threads are interchangeable: the next call is taken by the lowest idle one.
NextCaller(t) ==
    /\ pc[t] = "idle"
    /\ \A u \in Threads : u < t => pc[u] # "idle"
    /\ calls < MaxCalls

\* RAGResponse response; response.success = false;
\* if (!config_.enabled) ...  if (query.empty()) ...  start_time = now()
\* latency_ms of the default-initialized response is indeterminate until it
\* is assigned; junk is the value the caller finds in it when an early
\* return hands the response back without assigning it.
AugmentQueryCall(t, query, session_id, junk) ==
    /\ NextCaller(t)
    /\ calls' = calls + 1
    /\ LET err == Precondition(config_.enabled, query)
           f == [NoFrame EXCEPT !.query = query, !.session_id = session_id,
                                !.raced = \E u \in Threads : InUpdateConfig(u)]
       IN  IF err # <<>>
           THEN /\ frame' = [frame EXCEPT ![t] =
                                [f EXCEPT !.response =
                                    [RAGResponse(junk) EXCEPT !.error_message = err]]]
                /\ Goto(t, "aq_done")
           ELSE /\ frame' = [frame EXCEPT ![t] = [f EXCEPT !.start_time = f.elapsed]]
                /\ Goto(t, "aq_max_results")
    /\ UNCHANGED <<config_, http_client_, config_mutex_, ssl,
                   pureVars>>

\* {"query", query}, {"max_results", config_.max_results}
AugmentQueryMaxResults(t) ==
    /\ pc[t] = "aq_max_results"
    /\ frame' = [frame EXCEPT ![t].request_body =
                    [NoBody EXCEPT !.query = frame[t].query,
                                   !.max_results = config_.max_results]]
    /\ Goto(t, "aq_threshold")
    /\ UNCHANGED <<config_, http_client_, config_mutex_, ssl, calls, pureVars>>

\* {"similarity_threshold", config_.similarity_threshold}
AugmentQueryThreshold(t) ==
    /\ pc[t] = "aq_threshold"
    /\ frame' = [frame EXCEPT ![t].request_body.similarity_threshold =
                    config_.similarity_threshold]
    /\ Goto(t, "aq_include_tools")
    /\ UNCHANGED <<config_, http_client_, config_mutex_, ssl, calls, pureVars>>

\* (mutation of WithSession: the session id added even when it is empty)
WithSessionAlways(body, include_tools, session_id) ==
    [body EXCEPT !.include_tools = include_tools,
                 !.has_session_id = TRUE,
                 !.session_id = session_id]

\* The request body once include_tools is read and the session id added.
WithSession(body, include_tools, session_id) ==
    [body EXCEPT !.include_tools = include_tools,
                 !.has_session_id = (session_id # <<>>),
                 !.session_id = session_id]

\* {"include_tools", config_.include_tools}; session_id when not empty.
\* Building the JSON allocates: it may throw (bad_alloc), which takes the
\* call to the catch of augment_query.
AugmentQueryIncludeTools(t, throws) ==
    /\ pc[t] = "aq_include_tools"
    /\ IF throws
       THEN /\ frame' = [frame EXCEPT ![t].request_body = NoBody,
                                      ![t].session_id = <<>>]
            /\ Goto(t, "aq_catch")
       ELSE /\ frame' = [frame EXCEPT ![t].request_body =
                            WithSession(@, config_.include_tools, frame[t].session_id)]
            /\ Goto(t, "mr_lock")
    /\ UNCHANGED <<config_, http_client_, config_mutex_, ssl, calls, pureVars>>

\* if (json_response.has_value()) { response = parse_response(...);
\* response.success = true; } else { response.error_message = ...; }
AfterRequest(response, json_response, junk) ==
    IF json_response.has_value
    THEN [parse_response(json_response.value, junk) EXCEPT !.success = TRUE]
    ELSE [response EXCEPT !.error_message = <<"Failed to get response from Aurapai">>]

\* (mutation of MakeRequestSend: make_request without its lock_guard)
MakeRequestSendUnlocked(t) ==
    /\ pc[t] = "mr_lock"
    /\ IF http_client_.null
       THEN /\ frame' = [frame EXCEPT ![t].json_response = Nullopt,
                                      ![t].request_body = NoBody,
                                      ![t].session_id = <<>>]
            /\ Goto(t, "aq_finish")
       ELSE /\ frame' = [frame EXCEPT ![t].posts = @ + 1]
            /\ Goto(t, "mr_post")
    /\ UNCHANGED <<config_, http_client_, config_mutex_, ssl, calls, pureVars>>

\* make_request up to the Post: lock, the null check (return nullopt), then
\* the request is on the wire.
MakeRequestSend(t) ==
    /\ pc[t] = "mr_lock"
    /\ config_mutex_ = {}
    /\ IF http_client_.null
       THEN /\ config_mutex_' = {}
            /\ frame' = [frame EXCEPT ![t].json_response = Nullopt,
                                      ![t].request_body = NoBody,
                                      ![t].session_id = <<>>]
            /\ Goto(t, "aq_finish")
       ELSE /\ config_mutex_' = {t}
            /\ frame' = [frame EXCEPT ![t].posts = @ + 1]
            /\ Goto(t, "mr_post")
    /\ UNCHANGED <<config_, http_client_, ssl, calls, pureVars>>

\* What make_request returns for the result of the Post.
MakeRequestResult(res) ==
    IF ~res.got THEN Nullopt
    ELSE IF res.status # StatusOK THEN Nullopt
    ELSE IF ~res.parses THEN Nullopt
    ELSE Some(res.json)

\* The Post returns; make_request returns its result and unlocks.
\* request_body is not read again (it leaves scope with the try block).
MakeRequestReceive(t, res) ==
    /\ pc[t] = "mr_post"
    /\ Unlock(t)
    /\ frame' = [frame EXCEPT ![t].json_response = MakeRequestResult(res),
                              ![t].res = res,
                              ![t].request_body = NoBody,
                              ![t].session_id = <<>>]
    /\ Goto(t, "aq_finish")
    /\ UNCHANGED <<config_, http_client_, ssl, calls, pureVars>>

\* The rest of augment_query, all local to the thread: the translation of
\* what make_request returned, or the catch block; then
\* end_time = now(); response.latency_ms = end_time - start_time.
\* junk is the indeterminate latency_ms of the RAGResponse that
\* parse_response default-initializes.
AugmentQueryFinish(t, junk) ==
    /\ pc[t] \in {"aq_finish", "aq_catch"}
    /\ LET r == IF pc[t] = "aq_catch"
                THEN [frame[t].response EXCEPT
                         !.error_message = <<"Exception: ", "bad_alloc">>]
                ELSE AfterRequest(frame[t].response, frame[t].json_response, junk)
       IN  frame' = [frame EXCEPT ![t].response =
                        [r EXCEPT !.latency_ms =
                                     frame[t].elapsed - frame[t].start_time],
                                 ![t].res = NoResult]
    /\ Goto(t, "aq_done")
    /\ UNCHANGED <<config_, http_client_, config_mutex_, ssl, calls, pureVars>>

\* return response;
AugmentQueryReturn(t) ==
    /\ pc[t] = "aq_done"
    /\ frame' = [frame EXCEPT ![t] = NoFrame]
    /\ Goto(t, "idle")
    /\ UNCHANGED <<config_, http_client_, config_mutex_, ssl, calls, pureVars>>

(***************************************************************************)
(* is_healthy                                                              *)
(***************************************************************************)
\* if (!config_.enabled) return false;
IsHealthyCall(t) ==
    /\ NextCaller(t)
    /\ calls' = calls + 1
    /\ frame' = [frame EXCEPT ![t] =
                    [NoFrame EXCEPT !.raced = \E u \in Threads : InUpdateConfig(u)]]
    /\ Goto(t, IF config_.enabled THEN "ih_lock" ELSE "ih_done")
    /\ UNCHANGED <<config_, http_client_, config_mutex_, ssl,
                   pureVars>>

\* lock; if (!http_client_) return false; the Get is on the wire
IsHealthySend(t) ==
    /\ pc[t] = "ih_lock"
    /\ config_mutex_ = {}
    /\ IF http_client_.null
       THEN /\ config_mutex_' = {}
            /\ Goto(t, "ih_done")
            /\ UNCHANGED frame
       ELSE /\ config_mutex_' = {t}
            /\ frame' = [frame EXCEPT ![t].gets = @ + 1]
            /\ Goto(t, "ih_get")
    /\ UNCHANGED <<config_, http_client_, ssl, calls, pureVars>>

\* (mutation of HealthResult: the status of the response not looked at)
HealthResultAnyStatus(res) ==
    /\ res.got
    /\ res.parses
    /\ res.json.obj
    /\ res.json.ready = "true"

\* if (res && res->status == 200) { try { parse; return value("ready", false); }
\* catch (...) { return false; } }  return false;
\* value("ready", false) throws on a body that is no object and on a ready
\* that is no boolean; catch (...) turns both into false.
HealthResult(res) ==
    /\ res.got
    /\ res.status = StatusOK
    /\ res.parses
    /\ res.json.obj
    /\ res.json.ready = "true"

IsHealthyReceive(t, res) ==
    /\ pc[t] = "ih_get"
    /\ Unlock(t)
    /\ frame' = [frame EXCEPT ![t].healthy = HealthResult(res), ![t].res = res]
    /\ Goto(t, "ih_done")
    /\ UNCHANGED <<config_, http_client_, ssl, calls, pureVars>>

IsHealthyReturn(t) ==
    /\ pc[t] = "ih_done"
    /\ frame' = [frame EXCEPT ![t] = NoFrame]
    /\ Goto(t, "idle")
    /\ UNCHANGED <<config_, http_client_, config_mutex_, ssl, calls, pureVars>>

(***************************************************************************)
(* update_config                                                           *)
(***************************************************************************)
UpdateConfigCall(t, config) ==
    /\ NextCaller(t)
    /\ calls' = calls + 1
    /\ frame' = [u \in Threads |->
                    IF u = t THEN [NoFrame EXCEPT !.config = config]
                    ELSE IF InAugmentQuery(u) \/ InIsHealthy(u)
                         THEN [frame[u] EXCEPT !.raced = TRUE]
                    ELSE frame[u]]
    /\ Goto(t, "uc_lock")
    /\ UNCHANGED <<config_, http_client_, config_mutex_, ssl,
                   pureVars>>

\* bool need_reinit = (host != || port != || enabled !=)
NeedReinit(config, current) ==
    \/ config.aurapai_host # current.aurapai_host
    \/ config.aurapai_port # current.aurapai_port
    \/ config.enabled # current.enabled

\* lock_guard; need_reinit = ...
UpdateConfigLock(t) ==
    /\ pc[t] = "uc_lock"
    /\ Lock(t)
    /\ frame' = [frame EXCEPT ![t].need_reinit = NeedReinit(frame[t].config, config_),
                              ![t].member = 1]
    /\ Goto(t, "uc_assign")
    /\ UNCHANGED <<config_, http_client_, ssl, calls, pureVars>>

\* The members of config_ that some function reads without holding
\* config_mutex_ (augment_query, is_healthy).
UnlockedReads == {"enabled", "max_results", "similarity_threshold", "include_tools"}

RECURSIVE NextObserved(_)
\* the first member at or after the m-th whose assignment another thread
\* can observe (the last member if there is none)
NextObserved(m) ==
    IF m >= Len(ConfigMembers) \/ ConfigMembers[m] \in UnlockedReads THEN m
    ELSE NextObserved(m + 1)

\* config_ with the members first..last taken from config
Assigned(current, config, first, last) ==
    [k \in DOMAIN current |->
        IF \E i \in first..last : ConfigMembers[i] = k THEN config[k] ELSE current[k]]

\* config_ = config: the implicit copy assignment, member by member in
\* declaration order.  One step copies up to and including the next member
\* that is read without the lock; the members before it are read under the
\* lock only, which this thread holds.
UpdateConfigAssign(t) ==
    /\ pc[t] = "uc_assign"
    /\ LET first == frame[t].member
           last == NextObserved(first)
       IN  /\ config_' = Assigned(config_, frame[t].config, first, last)
           /\ frame' = [frame EXCEPT ![t].member = last + 1]
           /\ Goto(t, IF last = Len(ConfigMembers) THEN "uc_decide" ELSE "uc_assign")
    /\ UNCHANGED <<http_client_, config_mutex_, ssl, calls,
                   pureVars>>

\* if (need_reinit && config_.enabled) init_http_client();  else return
UpdateConfigDecide(t) ==
    /\ pc[t] = "uc_decide"
    /\ IF frame[t].need_reinit /\ config_.enabled
       THEN /\ Goto(t, "ihc_lock")
            /\ UNCHANGED config_mutex_
       ELSE /\ Goto(t, "uc_done")
            /\ Unlock(t)
    /\ UNCHANGED <<config_, http_client_, ssl, frame, calls,
                   pureVars>>

\* init_http_client called from update_config: lock_guard on config_mutex_,
\* a std::mutex the calling thread already owns.  The behaviour is
\* undefined; what builds do is block forever ("blocks") or have lock()
\* throw std::system_error, resource_deadlock_would_occur ("throws"), which
\* leaves update_config through the destructor of its own lock_guard.
\* In neither case is the client rebuilt.
RelockOutcomes == {"blocks", "throws"}

InitHttpClientRelock(t, outcome) ==
    /\ pc[t] = "ihc_lock"
    /\ config_mutex_ = {t}
    /\ IF outcome = "blocks"
       THEN /\ Goto(t, "ihc_blocked")
            /\ UNCHANGED config_mutex_
       ELSE /\ Goto(t, "uc_threw")
            /\ Unlock(t)
    /\ UNCHANGED <<config_, http_client_, ssl, frame, calls,
                   pureVars>>

\* update_config is left, by return or by the exception
UpdateConfigReturn(t) ==
    /\ pc[t] \in {"uc_done", "uc_threw"}
    /\ frame' = [frame EXCEPT ![t] = NoFrame]
    /\ Goto(t, "idle")
    /\ UNCHANGED <<config_, http_client_, config_mutex_, ssl, calls, pureVars>>

Next ==
    \/ Tick
    \/ \E t \in Threads, a \in QueryArgs, junk \in Indeterminate :
          AugmentQueryCall(t, a[1], a[2], junk)
    \/ \E t \in Threads : AugmentQueryMaxResults(t)
    \/ \E t \in Threads : AugmentQueryThreshold(t)
    \/ \E t \in Threads, throws \in BOOLEAN : AugmentQueryIncludeTools(t, throws)
    \/ \E t \in Threads : MakeRequestSend(t)
    \/ \E t \in Threads, res \in PostResults : MakeRequestReceive(t, res)
    \/ \E t \in Threads, junk \in Indeterminate : AugmentQueryFinish(t, junk)
    \/ \E t \in Threads : AugmentQueryReturn(t)
    \/ \E t \in Threads : IsHealthyCall(t)
    \/ \E t \in Threads : IsHealthySend(t)
    \/ \E t \in Threads, res \in GetResults : IsHealthyReceive(t, res)
    \/ \E t \in Threads : IsHealthyReturn(t)
    \/ \E t \in Threads, c \in Configs : UpdateConfigCall(t, c)
    \/ \E t \in Threads : UpdateConfigLock(t)
    \/ \E t \in Threads : UpdateConfigAssign(t)
    \/ \E t \in Threads : UpdateConfigDecide(t)
    \/ \E t \in Threads, o \in RelockOutcomes : InitHttpClientRelock(t, o)
    \/ \E t \in Threads : UpdateConfigReturn(t)

Spec == Init /\ [][Next]_vars

(***************************************************************************)
(* The pure functions.  A transcript is [is_array, turns]; a turn is       *)
(* [obj, role, content]: obj is whether the element is a JSON object, role *)
(* is the text of a string role, "absent" or "other" (not a string),       *)
(* content a member as above.                                              *)
(***************************************************************************)
Turn(role, content) == [obj |-> TRUE, role |-> role, content |-> content]
NotATurn == [obj |-> FALSE, role |-> "absent", content |-> Absent]

\* it->contains("role") && (*it)["role"] == "user"
IsUser(turn) == turn.obj /\ turn.role = "user"

RECURSIVE LastUser(_, _)
\* the reverse scan: the highest index <= i holding a user turn, 0 if none
LastUser(turns, i) ==
    IF i = 0 THEN 0
    ELSE IF IsUser(turns[i]) THEN i
    ELSE LastUser(turns, i - 1)

\* The prefix put before the user's text: the context, or the date note.
Injection(context, date) ==
    IF context = <<>> THEN <<"[System Note] Current date: ", date>> ELSE context

Returns(op, json) == [NothingReturned EXCEPT !.op = op, !.json = json]
ReturnsBool(op, b) == [NothingReturned EXCEPT !.op = op, !.bool = b]
Raises(op) == [NothingReturned EXCEPT !.op = op, !.raised = TRUE]

RECURSIVE FirstUser(_, _)
FirstUser(turns, i) ==
    IF i > Len(turns) THEN 0
    ELSE IF IsUser(turns[i]) THEN i
    ELSE FirstUser(turns, i + 1)

\* (mutation of inject_context_into_messages: a forward scan, which rewrites
\* the first user turn)
inject_context_forward_scan(msgs, context, date) ==
    LET op == "inject_context_into_messages"
        i == FirstUser(msgs.turns, 1)
    IN  IF ~msgs.is_array THEN Returns(op, msgs)
        ELSE IF i = 0 THEN Returns(op, msgs)
        ELSE IF ~StrOK(msgs.turns[i].content) THEN Raises(op)
        ELSE Returns(op,
                [msgs EXCEPT !.turns[i].content =
                    JStr(Injection(context, date) \o <<"\n\nUser Query: ">>
                         \o StrValue(msgs.turns[i].content, <<>>))])

inject_context_into_messages(msgs, context, date) ==
    LET op == "inject_context_into_messages"
        i == LastUser(msgs.turns, Len(msgs.turns))
    IN  IF ~msgs.is_array THEN Returns(op, msgs)
        ELSE IF i = 0 THEN Returns(op, msgs)
        ELSE IF ~StrOK(msgs.turns[i].content) THEN Raises(op)
        ELSE Returns(op,
                [msgs EXCEPT !.turns[i].content =
                    JStr(Injection(context, date) \o <<"\n\nUser Query: ">>
                         \o StrValue(msgs.turns[i].content, <<>>))])

\* (mutation of should_use_rag: the flag only honoured to switch RAG on)
should_use_rag_only_enabling(msgs, ps) ==
    LET op == "should_use_rag"
    IN  IF ps.obj /\ ps.rag_enabled = "true" THEN ReturnsBool(op, TRUE)
        ELSE IF ~msgs.is_array \/ msgs.turns = <<>> THEN ReturnsBool(op, FALSE)
        ELSE ReturnsBool(op, \E k \in 1..Len(msgs.turns) : IsUser(msgs.turns[k]))

\* params.contains("rag_enabled"): params is an object with that key
\* params["rag_enabled"].get<bool>(): type_error unless it is a boolean
should_use_rag(msgs, ps) ==
    LET op == "should_use_rag"
    IN  IF ps.obj /\ ps.rag_enabled # "absent"
        THEN IF ps.rag_enabled \in {"true", "false"}
             THEN ReturnsBool(op, ps.rag_enabled = "true")
             ELSE Raises(op)
        ELSE IF ~msgs.is_array \/ msgs.turns = <<>> THEN ReturnsBool(op, FALSE)
        ELSE ReturnsBool(op, \E k \in 1..Len(msgs.turns) : IsUser(msgs.turns[k]))

\* Inputs.
Turns ==
    {Turn("user", JStr(<<"A">>)), Turn("user", Absent), Turn("user", JNum(1)),
     Turn("system", JStr(<<"S">>)), Turn("absent", JStr(<<"B">>)), NotATurn}
RECURSIVE TurnSeqs(_)
TurnSeqs(n) ==
    IF n = 0 THEN {<<>>}
    ELSE LET shorter == TurnSeqs(n - 1)
         IN  shorter \cup {Append(ts, x) : ts \in shorter, x \in Turns}
Transcripts ==
    {[is_array |-> TRUE, turns |-> ts] : ts \in TurnSeqs(MaxTurns)}
    \cup {[is_array |-> FALSE, turns |-> <<Turn("user", JStr(<<"A">>))>>]}
Contexts == {<<>>, <<"CTX">>}
Params ==
    {[obj |-> TRUE, rag_enabled |-> r] : r \in {"absent", "true", "false", "other"}}
    \cup {[obj |-> FALSE, rag_enabled |-> "absent"]}

PureInit ==
    /\ ssl = TRUE
    /\ Constructed(RAGConfig)
    /\ pc = [t \in Threads |-> "idle"]
    /\ frame = [t \in Threads |-> NoFrame]
    /\ calls = 0
    /\ messages \in Transcripts
    /\ rag_context \in Contexts
    /\ today = "2025-01-01"
    /\ payload = JEmptyObject
    /\ chunks = <<>>
    /\ params \in Params
    /\ returned = NothingReturned

InjectContext ==
    /\ returned' = inject_context_into_messages(messages, rag_context, today)
    /\ UNCHANGED <<pureArgs, objVars>>

ShouldUseRag ==
    /\ returned' = should_use_rag(messages, params)
    /\ UNCHANGED <<pureArgs, objVars>>

PureNext == InjectContext \/ ShouldUseRag

PureSpec == PureInit /\ [][PureNext]_vars

(***************************************************************************)
(* parse_response and format_rag_context on their own.                     *)
(***************************************************************************)
\* operator<<(float) with the default precision: six significant digits.
\* A similarity handed to format_rag_context is kept in units of 10^-7
\* (1234567 stands for 0.1234567f, printed as 0.123457).
StreamFloat(x) ==
    IF x < 1000000 THEN x
    ELSE IF x < 10000000 THEN ((x + 5) \div 10) * 10
    ELSE ((x + 50) \div 100) * 100

RECURSIVE EntriesFromZero(_, _)
\* (mutation of Entries: the entries numbered by i instead of i + 1)
EntriesFromZero(cs, i) ==
    IF i > Len(cs) THEN <<>>
    ELSE <<"\n[Source ", i - 1, ": ", cs[i].source, " (relevance: ",
           StreamFloat(cs[i].similarity), ")]\n", cs[i].content, "\n">>
         \o EntriesFromZero(cs, i + 1)

RECURSIVE Entries(_, _)
\* the loop of format_rag_context from the i-th chunk on (i counts from 1
\* here, as the printed number does)
Entries(cs, i) ==
    IF i > Len(cs) THEN <<>>
    ELSE <<"\n[Source ", i, ": ", cs[i].source, " (relevance: ",
           StreamFloat(cs[i].similarity), ")]\n", cs[i].content, "\n">>
         \o Entries(cs, i + 1)

format_rag_context(cs) ==
    IF cs = <<>> THEN <<>>
    ELSE <<"[Retrieved Context]\n">> \o Entries(cs, 1)
         \o <<"\n[End Retrieved Context]\n">>

\* Inputs.
ChunkValues ==
    {[content |-> <<"c1">>, source |-> <<"doc">>, similarity |-> 8500000],
     [content |-> <<"c2">>, source |-> <<"web">>, similarity |-> 1234567],
     [content |-> <<>>, source |-> <<"unknown">>, similarity |-> 0]}
RECURSIVE ChunkLists(_)
ChunkLists(n) ==
    IF n = 0 THEN {<<>>}
    ELSE LET shorter == ChunkLists(n - 1)
         IN  shorter \cup {Append(cs, c) : cs \in shorter, c \in ChunkValues}
PayloadInputs ==
    Payloads \cup
    {JObject(ctx, lat, cs[1], cs[2], ts[1], ts[2]) :
        ctx \in {Absent, JStr(<<"ctx">>), JNum(1)},
        lat \in {Absent, JNum(7), JStr(<<"x">>)},
        cs \in {<<FALSE, <<>>>>, <<TRUE, <<>>>>, <<TRUE, <<GoodChunk>>>>,
                <<TRUE, <<GoodChunk, BareChunk>>>>,
                <<TRUE, <<GoodChunk, JNotAnObject>>>>, <<TRUE, <<JNotAnObject>>>>},
        ts \in {<<FALSE, <<>>>>, <<TRUE, <<JTool("search"), JNotAString>>>>}}

TranslatorInit ==
    /\ ssl = TRUE
    /\ Constructed(RAGConfig)
    /\ pc = [t \in Threads |-> "idle"]
    /\ frame = [t \in Threads |-> NoFrame]
    /\ calls = 0
    /\ messages = [is_array |-> TRUE, turns |-> <<>>]
    /\ rag_context = <<>>
    /\ today = "2025-01-01"
    /\ params = [obj |-> TRUE, rag_enabled |-> "absent"]
    /\ payload \in PayloadInputs
    /\ chunks \in ChunkLists(MaxChunks)
    /\ returned = NothingReturned

ParseResponse(junk) ==
    /\ returned' = [NothingReturned EXCEPT !.op = "parse_response",
                                           !.response = parse_response(payload, junk)]
    /\ UNCHANGED <<pureArgs, objVars>>

FormatRagContext ==
    /\ returned' = [NothingReturned EXCEPT !.op = "format_rag_context",
                                           !.text = format_rag_context(chunks)]
    /\ UNCHANGED <<pureArgs, objVars>>

TranslatorNext ==
    \/ \E junk \in Indeterminate : ParseResponse(junk)
    \/ FormatRagContext

TranslatorSpec == TranslatorInit /\ [][TranslatorNext]_vars

(***************************************************************************)
(* Construction on its own: the constructor applied to a range of          *)
(* configurations, in builds with and without OpenSSL support.             *)
(***************************************************************************)
Hosts ==
    {<<"localhost">>, <<"localhost", "/">>, <<>>,
     <<"https://", "svc.example">>, <<"https://", "svc.example", "/">>,
     <<"https://", "svc.example", "/", "/">>, <<"https://">>,
     <<"http://", "svc.example">>, <<"http://", "svc.example", "/">>,
     <<"svc.example", "/", "http://">>}
CtorConfigs ==
    {[RAGConfig EXCEPT !.aurapai_host = h, !.aurapai_port = p,
                       !.timeout_ms = ms, !.enabled = e] :
        h \in Hosts, p \in {DefaultPort, HttpsPort, 9000},
        ms \in {DefaultTimeoutMs, 1500}, e \in BOOLEAN}

\* RAGMiddleware(config) : config_(config) -- the body is still to run
ConstructInit ==
    /\ ssl \in BOOLEAN
    /\ config_ \in CtorConfigs
    /\ http_client_ = NoClient
    /\ config_mutex_ = {}
    /\ pc = [t \in Threads |-> IF t = 1 THEN "ctor" ELSE "idle"]
    /\ frame = [t \in Threads |-> NoFrame]
    /\ calls = 0
    /\ messages = [is_array |-> TRUE, turns |-> <<>>]
    /\ rag_context = <<>>
    /\ today = "2025-01-01"
    /\ payload = JEmptyObject
    /\ chunks = <<>>
    /\ params = [obj |-> TRUE, rag_enabled |-> "absent"]
    /\ returned = NothingReturned

\* if (config_.enabled) init_http_client();
Construct ==
    /\ pc[1] = "ctor"
    /\ config_mutex_ = {}
    /\ http_client_' = IF config_.enabled THEN NewClient(config_, ssl) ELSE NoClient
    /\ Goto(1, "constructed")
    /\ UNCHANGED <<config_, config_mutex_, ssl, frame, calls, pureVars>>

ConstructSpec == ConstructInit /\ [][Construct]_vars

(***************************************************************************)
(* Properties of the middleware object (checked under Spec).               *)
(***************************************************************************)
Returned(t) == pc[t] = "aq_done"
Result(t) == frame[t].response

\* C1: a call of augment_query that no update_config overlaps returns
\* success = false with exactly "RAG disabled" when the configuration is
\* disabled, and with exactly "Empty query" when it is enabled and the query
\* is empty; in both cases the call has issued no POST and no GET.
C1_EarlyReturns ==
    \A t \in Threads :
        (Returned(t) /\ ~frame[t].raced) =>
            /\ ~config_.enabled =>
                  /\ ~Result(t).success
                  /\ Result(t).error_message = <<"RAG disabled">>
                  /\ frame[t].posts = 0 /\ frame[t].gets = 0
            /\ (config_.enabled /\ frame[t].query = <<>>) =>
                  /\ ~Result(t).success
                  /\ Result(t).error_message = <<"Empty query">>
                  /\ frame[t].posts = 0 /\ frame[t].gets = 0

\* C1 witness: an undisturbed call with an empty query against an enabled
\* configuration has returned "Empty query" without a request.
C1_Witness ==
    \E t \in Threads :
        /\ Returned(t) /\ ~frame[t].raced
        /\ config_.enabled /\ frame[t].query = <<>>
        /\ Result(t).error_message = <<"Empty query">>
        /\ frame[t].posts = 0

\* C2: every result augment_query returns has a non-empty error_message
\* exactly when success is false, and carries no chunks when success is false.
C2_ResultShape ==
    \A t \in Threads :
        Returned(t) =>
            /\ (Result(t).error_message # <<>>) <=> ~Result(t).success
            /\ ~Result(t).success => Result(t).chunks = <<>>

\* C3: when make_request returned a payload and parse_response fails on it,
\* augment_query returns success = false with a message beginning
\* "Parse error: ".
C3_TranslatorFailure ==
    \A t \in Threads :
        (/\ Returned(t)
         /\ frame[t].json_response.has_value
         /\ ~parse_response(frame[t].json_response.value, 0).success) =>
            /\ ~Result(t).success
            /\ StartsWith(Result(t).error_message, "Parse error: ")

\* C4: a thread inside update_config that owns the lock can always go on
\* (to its return, releasing the lock): it is never stuck owning it.
UpdateConfigStep(t) ==
    \/ UpdateConfigAssign(t)
    \/ UpdateConfigDecide(t)
    \/ \E o \in RelockOutcomes : InitHttpClientRelock(t, o)
C4_UpdateConfigReturns ==
    \A t \in Threads :
        (InUpdateConfig(t) /\ t \in config_mutex_) => ENABLED UpdateConfigStep(t)

\* C5: the latency of every result augment_query returns is the time that
\* call took, from its entry to its return.
C5_LatencyMeasured ==
    \A t \in Threads :
        Returned(t) => Result(t).latency_ms = frame[t].elapsed

\* C6: at most one thread at a time has a request in flight on the
\* connection or is inside init_http_client rebuilding it.
InFlight(t) == pc[t] \in {"mr_post", "ih_get"}
Rebuilding(t) == pc[t] \in {"ihc_lock", "ihc_blocked"}
C6_ExclusiveConnection ==
    Cardinality({t \in Threads : InFlight(t) \/ Rebuilding(t)}) <= 1

\* C6 witness: a POST is in flight while another thread, its request built
\* or its health check begun, waits for the lock.
C6_Witness ==
    \E t, u \in Threads :
        /\ t # u
        /\ pc[t] = "mr_post"
        /\ pc[u] \in {"mr_lock", "ih_lock", "uc_lock"}

\* C7: the request augment_query sends is built from one configuration: the
\* enabled flag it passed and max_results, similarity_threshold and
\* include_tools of its payload all belong to one of the configurations the
\* object is ever given (the one before an update or the one after it),
\* never to a mixture of two.
C7_SingleConfiguration ==
    \A t \in Threads :
        pc[t] = "mr_post" =>
            \E c \in Configs :
                /\ c.enabled
                /\ c.max_results = frame[t].request_body.max_results
                /\ c.similarity_threshold = frame[t].request_body.similarity_threshold
                /\ c.include_tools = frame[t].request_body.include_tools

\* C8: when update_config is left, the stored configuration is the new one,
\* and if the new configuration is enabled and differs from the previous
\* one in enabled, host or port, the connection is the one derived from it.
UpdateConfigLeaves(t) ==
    /\ pc[t] \in {"uc_decide", "ihc_lock"}
    /\ pc'[t] \in {"uc_done", "uc_threw"}
C8_RebuildOnIdentityChange ==
    [][\A t \in Threads :
          UpdateConfigLeaves(t) =>
              /\ config_' = frame[t].config
              /\ (frame[t].config.enabled /\ frame[t].need_reinit) =>
                     http_client_' = NewClient(frame[t].config, ssl)]_vars

(***************************************************************************)
(* Properties of the pure functions (checked under PureSpec).              *)
(***************************************************************************)
UserPositions(ts) == {k \in 1..Len(ts) : ts[k].obj /\ ts[k].role = "user"}
Highest(S) == CHOOSE k \in S : \A j \in S : j <= k

\* The transcript `out` is `messages` with the content of turn i replaced by
\* prefix + "\n\nUser Query: " + the original text, and nothing else changed.
RewrittenAt(out, i, prefix) ==
    LET ts == messages.turns
        original == IF ts[i].content.ty = "string" THEN ts[i].content.s ELSE <<>>
    IN  /\ out.is_array
        /\ Len(out.turns) = Len(ts)
        /\ \A k \in 1..Len(ts) : k # i => out.turns[k] = ts[k]
        /\ out.turns[i].obj = ts[i].obj
        /\ out.turns[i].role = ts[i].role
        /\ out.turns[i].content =
              [ty |-> "string", s |-> prefix \o <<"\n\nUser Query: ">> \o original,
               n |-> 0]

C10_ExplicitFlag ==
    (/\ returned.op = "should_use_rag"
     /\ params.obj
     /\ params.rag_enabled \in {"true", "false"}) =>
        /\ ~returned.raised
        /\ returned.bool = (params.rag_enabled = "true")

\* C10 witness: rag_enabled = false gave false for a transcript that has a
\* user turn.
C10_Witness ==
    /\ returned.op = "should_use_rag"
    /\ params.obj /\ params.rag_enabled = "false"
    /\ messages.is_array /\ UserPositions(messages.turns) # {}
    /\ returned.bool = FALSE

\* C11: when params carries no boolean rag_enabled (no such key, or a value
\* that is not a boolean), should_use_rag returns without raising: false
\* for a transcript that is empty or no array, and otherwise true exactly
\* when some turn, wherever it sits, has role "user".
C11_FallbackToTranscript ==
    (/\ returned.op = "should_use_rag"
     /\ ~(params.obj /\ params.rag_enabled \in {"true", "false"})) =>
        /\ ~returned.raised
        /\ returned.bool = (messages.is_array /\ UserPositions(messages.turns) # {})

\* C12: is_healthy returns true only when a GET was issued (the feature was
\* enabled and the connection existed), a response came with status 200 and
\* a body that parses to an object whose ready is the boolean true; it
\* returns false otherwise, and a call on a disabled middleware that no
\* update_config overlaps issues no GET.
HealthReturned(t) == pc[t] = "ih_done"
C12_HealthyOnlyWhenReady ==
    \A t \in Threads :
        HealthReturned(t) =>
            /\ frame[t].healthy <=>
                  /\ frame[t].gets = 1
                  /\ frame[t].res.got
                  /\ frame[t].res.status = StatusOK
                  /\ frame[t].res.parses
                  /\ frame[t].res.json.obj
                  /\ frame[t].res.json.ready = "true"
            /\ frame[t].gets = 1 => ~http_client_.null
            /\ (~frame[t].raced /\ ~config_.enabled) =>
                  frame[t].gets = 0 /\ ~frame[t].healthy

\* C12 witness: a health check got status 200 and a body whose ready is not
\* a boolean, and answered false.
C12_Witness ==
    \E t \in Threads :
        /\ HealthReturned(t)
        /\ frame[t].gets = 1
        /\ frame[t].res.got /\ frame[t].res.status = StatusOK
        /\ frame[t].res.parses /\ frame[t].res.json.ready = "other"
        /\ ~frame[t].healthy

\* C13: make_request hands augment_query the parsed payload exactly when a
\* response was received, its status is in the 2xx range and its body
\* parses; it hands back no payload when there is no connection, no
\* response, a non-2xx status or an unparsable body.
Is2xx(status) == status >= 200 /\ status < 300
MakeRequestReturned(t) == pc[t] = "aq_finish"
C13_PayloadIffSuccess ==
    \A t \in Threads :
        MakeRequestReturned(t) =>
            IF frame[t].posts = 0
            THEN ~frame[t].json_response.has_value
            ELSE /\ frame[t].json_response.has_value <=>
                       /\ frame[t].res.got
                       /\ Is2xx(frame[t].res.status)
                       /\ frame[t].res.parses
                 /\ frame[t].json_response.has_value =>
                       frame[t].json_response.value = frame[t].res.json

\* C16: the payload augment_query posts carries the query of the call and
\* max_results, similarity_threshold and include_tools of the stored
\* configuration (for a call no update_config overlaps), and has a
\* session_id key exactly when the session identifier of the call is not
\* empty, then with that identifier as its value.
Posting(t) == pc[t] = "mr_post"
C16_RequestPayload ==
    \A t \in Threads :
        Posting(t) =>
            LET body == frame[t].request_body
            IN  /\ body.query = frame[t].query
                /\ body.has_session_id <=> frame[t].session_id # <<>>
                /\ body.has_session_id => body.session_id = frame[t].session_id
                /\ ~frame[t].raced =>
                      /\ body.max_results = config_.max_results
                      /\ body.similarity_threshold = config_.similarity_threshold
                      /\ body.include_tools = config_.include_tools

\* C16 witness: a call without a session identifier posts a payload without
\* the key while another call, with one, has its payload built with the key.
C16_Witness ==
    \E t, u \in Threads :
        /\ Posting(t) /\ ~frame[t].raced
        /\ frame[t].session_id = <<>> /\ ~frame[t].request_body.has_session_id
        /\ pc[u] = "mr_lock"
        /\ frame[u].session_id # <<>> /\ frame[u].request_body.has_session_id

\* C17: every step of augment_query, is_healthy and update_config that
\* reads a member of config_, or reads or writes http_client_, is taken by a
\* thread that holds config_mutex_.
ReadsConfig(t) ==
    \/ \E a \in QueryArgs, junk \in Indeterminate : AugmentQueryCall(t, a[1], a[2], junk)
    \/ AugmentQueryMaxResults(t)
    \/ AugmentQueryThreshold(t)
    \/ AugmentQueryIncludeTools(t, FALSE)
    \/ IsHealthyCall(t)
    \/ UpdateConfigAssign(t)
    \/ UpdateConfigDecide(t)
UsesClient(t) ==
    \/ \E res \in PostResults : MakeRequestReceive(t, res)
    \/ \E res \in GetResults : IsHealthyReceive(t, res)
C17_UnderTheLock ==
    [][\A t \in Threads :
          (ReadsConfig(t) \/ UsesClient(t)) => t \in config_mutex_]_vars

\* C18: a POST is on the wire only while the stored configuration has
\* enabled = true.  (The posting thread holds config_mutex_ from before the
\* Post until after it, so the configuration a POST is issued under is the
\* one stored while it is in flight.)
C18_NoPostWhenDisabled ==
    \A t \in Threads : Posting(t) => config_.enabled

\* C19: a request sent while the stored configuration has the host and
\* port the connection was built for (it differs from the one the connection
\* was built from in soft fields at most), by a call that no update_config
\* overlaps, uses the soft values of the stored configuration: its
\* max_results, similarity_threshold and include_tools are in the payload,
\* and the read and write timeouts of the connection are those derived
\* from its timeout_ms.
SameConnection ==
    LET derived == NewClient(config_, ssl)
    IN  /\ http_client_.host = derived.host
        /\ http_client_.port = derived.port
        /\ http_client_.tls = derived.tls
C19_SoftFieldsTakeEffect ==
    \A t \in Threads :
        (Posting(t) /\ ~frame[t].raced /\ SameConnection) =>
            /\ frame[t].request_body.max_results = config_.max_results
            /\ frame[t].request_body.similarity_threshold = config_.similarity_threshold
            /\ frame[t].request_body.include_tools = config_.include_tools
            /\ http_client_.read_sec = config_.timeout_ms \div 1000
            /\ http_client_.read_usec = (config_.timeout_ms % 1000) * 1000
            /\ http_client_.write_sec = config_.timeout_ms \div 1000
            /\ http_client_.write_usec = (config_.timeout_ms % 1000) * 1000

(***************************************************************************)
(* Properties of construction (checked under ConstructSpec).               *)
(***************************************************************************)
WithoutOneSlash(h) ==
    IF h # <<>> /\ h[Len(h)] = "/" THEN [i \in 1..(Len(h) - 1) |-> h[i]] ELSE h

\* C14: the connection built from a configuration whose host begins with
\* "https://" has port 443, and from one whose host begins with "http://"
\* port 80, whatever port is configured, and its host is the configured one
\* without the scheme and without one trailing "/"; a host with no scheme
\* keeps the configured port and gets the plaintext transport.
C14_SchemeDecidesPort ==
    (pc[1] = "constructed" /\ config_.enabled) =>
        LET raw == config_.aurapai_host
            https == raw # <<>> /\ raw[1] = "https://"
            http == raw # <<>> /\ raw[1] = "http://"
        IN  /\ ~http_client_.null
            /\ https => /\ http_client_.port = HttpsPort
                        /\ http_client_.host = WithoutOneSlash(Tail(raw))
            /\ http => /\ http_client_.port = HttpPort
                       /\ http_client_.host = WithoutOneSlash(Tail(raw))
            /\ (~https /\ ~http) => /\ http_client_.port = config_.aurapai_port
                                    /\ ~http_client_.tls

\* C14 witness: "https://svc.example/" with port 8001 gave a connection to
\* svc.example on port 443.
C14_Witness ==
    /\ pc[1] = "constructed"
    /\ config_.aurapai_host = <<"https://", "svc.example", "/">>
    /\ config_.aurapai_port = DefaultPort
    /\ http_client_.host = <<"svc.example">>
    /\ http_client_.port = HttpsPort

(***************************************************************************)
(* Properties of the translator and the formatter (checked under           *)
(* TranslatorSpec).                                                        *)
(***************************************************************************)
\* The nine pieces of the k-th entry of a formatted text.
EntryOf(text, k) == SubSeq(text, 2 + 9 * (k - 1), 1 + 9 * k)
SixDigits(x) ==
    LET unit == IF x < 1000000 THEN 1 ELSE IF x < 10000000 THEN 10 ELSE 100
    IN  ((2 * x + unit) \div (2 * unit)) * unit

\* C15: format_rag_context gives the empty string for no chunks; for n chunks
\* it gives the header, then n entries in the order of the chunks, the i-th
\* numbered i (from 1) and carrying the source, the similarity (as the
\* stream prints it) and the content of the i-th chunk, then the footer.
C15_EntriesInOrder ==
    returned.op = "format_rag_context" =>
        IF chunks = <<>> THEN returned.text = <<>>
        ELSE LET text == returned.text
                 n == Len(chunks)
             IN  /\ Len(text) = 2 + 9 * n
                 /\ text[1] = "[Retrieved Context]\n"
                 /\ text[Len(text)] = "\n[End Retrieved Context]\n"
                 /\ \A i \in 1..n :
                       /\ EntryOf(text, i)[2] = i
                       /\ EntryOf(text, i)[4] = chunks[i].source
                       /\ EntryOf(text, i)[6] = SixDigits(chunks[i].similarity)
                       /\ EntryOf(text, i)[8] = chunks[i].content

\* C15 witness: three chunks, the first and the last different, were
\* formatted into a text whose third entry is numbered 3.
C15_Witness ==
    /\ returned.op = "format_rag_context"
    /\ Len(chunks) = 3
    /\ chunks[1] # chunks[3]
    /\ Len(returned.text) = 29
    /\ EntryOf(returned.text, 3)[2] = 3
    /\ EntryOf(returned.text, 3)[4] = chunks[3].source

\* C20: a result of parse_response that reports a fault (success = false)
\* has an error_message beginning "Parse error: " and carries nothing of
\* what was extracted before the fault: no augmented_context, no chunks, no
\* suggested tools.
C20_NothingPartial ==
    (returned.op = "parse_response" /\ ~returned.response.success) =>
        /\ StartsWith(returned.response.error_message, "Parse error: ")
        /\ returned.response.augmented_context = <<>>
        /\ returned.response.chunks = <<>>
        /\ returned.response.suggested_tools = <<>>

====
